---- MODULE Spec2Model ----
(***************************************************************************)
(* Model of the per-camera frame pipeline of AI-security-surveillance:     *)
(* main.py (the request handlers, the status collection, the frame queues  *)
(* and the streaming generator) and video_processor.py (VideoProcessor:    *)
(* its worker threads, start_* and stop).                                  *)
(*                                                                         *)
(* Threads of the model:                                                   *)
(*   - one request thread ("ctl") that runs set_ip, upload_file,           *)
(*     close_camera and get_status one after the other, each in the steps  *)
(*     at which other threads can interleave;                              *)
(*   - per camera, the streaming generator of test_feed ("feed");          *)
(*   - per camera, every worker thread start_* has ever spawned.           *)
(*                                                                         *)
(* Spec is the whole of it for one camera.  The other specifications take  *)
(* a part of it and follow one thing more closely: SoloSpec one source per *)
(* camera, SinkSpec a queue of the real capacity, StatsSpec the running    *)
(* statistics, ClassifySpec the frames of a file, MarkerSpec the markers   *)
(* of the synthetic source, PairSpec two cameras, FaultSpec exceptions in  *)
(* a worker.                                                               *)
(***************************************************************************)
EXTENDS Integers, Sequences, FiniteSets, TLC

VARIABLES
    camera_status,      \* main.camera_status: camera id -> status dict
    status_lock,        \* main.status_lock: its holder
    video_processors,   \* main.video_processors: the ids that have an instance
    frame_queue,        \* main.frame_queues: camera id -> queue contents
    maxsize,            \* queue.Queue(maxsize=...) of each frame queue
    model,              \* VideoProcessor.model: TRUE when YOLO loaded
    running,            \* VideoProcessor.running
    process_thread,     \* VideoProcessor.process_thread: 0 is None, else worker
    status,             \* VideoProcessor.status: the dict self.status refers to
    aliased,            \* TRUE when self.status IS the dict camera_status[c]
    proc_lock,          \* VideoProcessor.status_lock: its holder
    workers,            \* per camera, the threads spawned so far, in order
    feed,               \* per camera, the position of test_feed's generator
    ctl,                \* the request thread: its handler and position
    lifecycle,          \* per camera, Idle/Running/Stopped of the instance
    stopped_upto,       \* per camera, workers spawned before the last finished stop
    stop_returned,      \* per camera, stop() returned and no start since
    restarted,          \* per camera, a start was issued on a Running instance
    total_people_count, \* VideoProcessor.total_people_count
    frame_count,        \* VideoProcessor.frame_count
    max_people_count,   \* VideoProcessor.max_people_count
    annotated           \* per camera, the frames draw_statistics has been called for

vars == <<camera_status, status_lock, video_processors, frame_queue, maxsize,
          model, running, process_thread, status, aliased, proc_lock, workers,
          feed, ctl, lifecycle, stopped_upto, stop_returned, restarted,
          total_people_count, frame_count, max_people_count, annotated>>

\* The running statistics of the instances, and the record of what they
\* were given
counters == <<total_people_count, frame_count, max_people_count, annotated>>

----------------------------------------------------------------------------
(* Bounds of the model and constants of the program *)

NumCameras == 4         \* camera ids 1..4
FrameQueueMaxSize == 10 \* queue.Queue(maxsize=10)
NumPersons == 3         \* markers of the synthetic source
FrameHeight == 480      \* height of the frames
FrameWidth == 640       \* width of the frames of the synthetic source
QueueBound == 3         \* capacity of a frame queue in Spec (scaled down)
MaxStarts == 2          \* set_ip/upload_file calls per camera
MaxFileLen == 1         \* frames in an uploaded file in Spec
MaxFalling == 1         \* markers 1..MaxFalling may fall in Spec
SinkFrames == 15        \* frames of the file pushed in SinkSpec

Cameras == 1..NumCameras
\* The cameras the requests of Spec address. The state of a camera (status
\* record, queue, instance, workers) is disjoint from every other camera's.
Driven == {1}
Persons == 1..NumPersons
\* The markers whose np.random.random() may come out below 0.001
MayFall == 1..MaxFalling
IpInputs == {"", "cam"}     \* data.get('ip') of set_ip
FileNames == {"a.mp4"}      \* file.filename of upload_file

----------------------------------------------------------------------------
(* Status dicts.  keys is the set of keys the dict holds; a field whose key *)
(* is absent keeps a default value that no reader looks at.                 *)

StatusKeys == {"type", "url", "count", "fall", "timestamp"}

\* {'type': 'offline', 'url': None, 'count': 0, 'fall': False}
OfflineStatus ==
    [keys |-> {"type", "url", "count", "fall"},
     type |-> "offline", url |-> "None", count |-> 0, fall |-> FALSE]

\* {'type': kind, 'url': locator, 'count': 0, 'fall': False, 'timestamp': now}
SourceStatus(kind, locator) ==
    [keys |-> StatusKeys,
     type |-> kind, url |-> locator, count |-> 0, fall |-> FALSE]

\* self.status = {}
EmptyStatus ==
    [keys |-> {}, type |-> "", url |-> "", count |-> 0, fall |-> FALSE]

\* A per-frame update that rebuilds the dict from the frame's values alone
WorkerStatusReplace(s, people_count, fall_detected) ==
    [keys |-> {"count", "fall", "timestamp"}, type |-> "", url |-> "",
     count |-> people_count, fall |-> fall_detected]

\* self.status['count'] = ...; self.status['fall'] = ...;
\* self.status['timestamp'] = ...
WorkerStatusWrite(s, people_count, fall_detected) ==
    [s EXCEPT !.keys = @ \cup {"count", "fall", "timestamp"},
              !.count = people_count,
              !.fall = fall_detected]

----------------------------------------------------------------------------
(* Locks *)

Free == [t |-> "free", c |-> 0, w |-> 0]
CtlThread == [t |-> "ctl", c |-> 0, w |-> 0]
FeedThread(c) == [t |-> "feed", c |-> c, w |-> 0]
WorkerThread(c, w) == [t |-> "worker", c |-> c, w |-> w]

----------------------------------------------------------------------------
(* Detector and fall classifier *)

Box(x1, y1, x2, y2, cls, conf) ==
    [bbox |-> <<x1, y1, x2, y2>>, cls |-> cls, conf |-> conf]

\* What the YOLO model finds in a frame of a file: boxes with a class and a
\* confidence in percent.
RawFrames ==
    { << Box(100, 100, 150, 300, 0, 90), Box(100, 250, 400, 450, 0, 40) >>,
      << Box(200, 300, 200, 400, 0, 80), Box(100, 250, 400, 450, 0, 70) >> }

MaxDets == 2            \* detections in a frame of ClassifySpec

\* Person boxes around the three thresholds of detect_fall for a frame 480
\* high (0.6 * 480 = 288, 0.3 * 480 = 144): two lying low in the frame, one
\* of aspect ratio 0.8, one centred at 288, one 144 high, one of width 0, one
\* of negative width, one standing
ClassifyBoxes ==
    { Box(100, 250, 400, 450, 0, 90), Box(100, 300, 400, 445, 0, 90),
      Box(100, 250, 350, 450, 0, 90), Box(100, 188, 400, 388, 0, 90),
      Box(100, 300, 400, 444, 0, 90), Box(100, 250, 100, 450, 0, 90),
      Box(100, 250, 60, 450, 0, 90), Box(100, 100, 150, 300, 0, 90) }

\* The frames of at most MaxDets of these boxes
ClassifyFrames ==
    UNION { [1..n -> ClassifyBoxes] : n \in 0..MaxDets }

IsPerson(b) == b.cls = 0 /\ b.conf > 50

\* A detector that does not look at whether the model was loaded
detect_people_any(m, raw) ==
    LET sel == SelectSeq(raw, IsPerson)
    IN  [count |-> Len(sel), detections |-> sel]

\* m is whether self.model is set; raw is what the model finds in the frame
detect_people(m, raw) ==
    IF ~m THEN [count |-> 0, detections |-> <<>>]
    ELSE LET sel == SelectSeq(raw, IsPerson)
         IN  [count |-> Len(sel), detections |-> sel]

\* aspect_ratio < 0.8 and bbox_center_y > frame_height * 0.6 and
\* height > frame_height * 0.3, for width > 0, in integers
FallCondition(b, frame_height) ==
    LET width == b.bbox[3] - b.bbox[1]
        height == b.bbox[4] - b.bbox[2]
    IN  /\ width > 0
        /\ 10 * height < 8 * width
        /\ 5 * (b.bbox[2] + b.bbox[4]) > 6 * frame_height
        /\ 10 * height > 3 * frame_height

NoBox == <<>>

\* A scan that ends at the first box without a positive width
RECURSIVE detect_fall_stop(_, _)
detect_fall_stop(detections, frame_height) ==
    IF detections = <<>> THEN [fall |-> FALSE, bbox |-> NoBox]
    ELSE IF Head(detections).bbox[3] - Head(detections).bbox[1] <= 0
         THEN [fall |-> FALSE, bbox |-> NoBox]
         ELSE IF FallCondition(Head(detections), frame_height)
              THEN [fall |-> TRUE, bbox |-> Head(detections).bbox]
              ELSE detect_fall_stop(Tail(detections), frame_height)

RECURSIVE detect_fall(_, _)
detect_fall(detections, frame_height) ==
    IF detections = <<>> THEN [fall |-> FALSE, bbox |-> NoBox]
    ELSE IF FallCondition(Head(detections), frame_height)
         THEN [fall |-> TRUE, bbox |-> Head(detections).bbox]
         ELSE detect_fall(Tail(detections), frame_height)

----------------------------------------------------------------------------
(* Initial state: the module-level globals of main.py; no instance yet *)

\* Nothing annotated yet: frames begun, frames whose draw_statistics is over,
\* and the sum and the maximum of the people counts of these
NoFrames == [begun |-> 0, n |-> 0, sum |-> 0, max |-> 0]

IdleCtl == [pc |-> "idle", op |-> "none", cam |-> 0, kind |-> "none",
            locator |-> "", len |-> 0]

InitWith(capacity) ==
    /\ camera_status = [c \in Cameras |-> OfflineStatus]
    /\ status_lock = Free
    /\ video_processors = {}
    /\ frame_queue = [c \in Cameras |-> <<>>]
    /\ maxsize = [c \in Cameras |-> capacity]
    /\ model = [c \in Cameras |-> FALSE]
    /\ running = [c \in Cameras |-> FALSE]
    /\ process_thread = [c \in Cameras |-> 0]
    /\ status = [c \in Cameras |-> EmptyStatus]
    /\ aliased = [c \in Cameras |-> FALSE]
    /\ proc_lock = [c \in Cameras |-> Free]
    /\ workers = [c \in Cameras |-> <<>>]
    /\ feed = [c \in Cameras |-> "off"]
    /\ ctl = IdleCtl
    /\ lifecycle = [c \in Cameras |-> "None"]
    /\ stopped_upto = [c \in Cameras |-> 0]
    /\ stop_returned = [c \in Cameras |-> FALSE]
    /\ restarted = [c \in Cameras |-> FALSE]
    /\ total_people_count = [c \in Cameras |-> 0]
    /\ frame_count = [c \in Cameras |-> 0]
    /\ max_people_count = [c \in Cameras |-> 0]
    /\ annotated = [c \in Cameras |-> NoFrames]

Init == InitWith(QueueBound)

----------------------------------------------------------------------------
(* main.get_processor.  An instance is constructed once per camera id and  *)
(* kept; the constructor's values of running, process_thread, status and   *)
(* status_lock are those of Init.  load_model sets model, or None when     *)
(* YOLO(...) raises.                                                       *)

LoadResults(c) == IF c \in video_processors THEN {model[c]} ELSE BOOLEAN

get_processor(c, loaded) ==
    IF c \in video_processors
    THEN UNCHANGED <<video_processors, model>>
    ELSE /\ video_processors' = video_processors \cup {c}
         /\ model' = [model EXCEPT ![c] = loaded]

is_alive(c, w) == workers[c][w].pc # "done"

AliveWorkers(c) == {w \in 1..Len(workers[c]) : is_alive(c, w)}

----------------------------------------------------------------------------
(* Request handlers *)

\* set_ip up to "with status_lock:"; an empty ip returns 400 before it
SetIp(c, ip) ==
    /\ ctl.pc = "idle"
    /\ ip # ""
    /\ Len(workers[c]) < MaxStarts
    /\ status_lock = Free
    /\ status_lock' = CtlThread
    /\ ctl' = [pc |-> "ss_write", op |-> "set_ip", cam |-> c,
               kind |-> "ip_camera", locator |-> ip, len |-> 0]
    /\ UNCHANGED <<counters, camera_status, video_processors, frame_queue, maxsize, model,
                   running, process_thread, status, aliased, proc_lock, workers,
                   feed, lifecycle, stopped_upto, stop_returned, restarted>>

\* upload_file up to "with status_lock:"; len is the number of frames of the
\* saved file
UploadFile(c, filename, len) ==
    /\ ctl.pc = "idle"
    /\ filename # ""
    /\ Len(workers[c]) < MaxStarts
    /\ status_lock = Free
    /\ status_lock' = CtlThread
    /\ ctl' = [pc |-> "ss_write", op |-> "upload_file", cam |-> c,
               kind |-> "video_file", locator |-> filename, len |-> len]
    /\ UNCHANGED <<counters, camera_status, video_processors, frame_queue, maxsize, model,
                   running, process_thread, status, aliased, proc_lock, workers,
                   feed, lifecycle, stopped_upto, stop_returned, restarted>>

\* camera_status[camera_id] = {...}: a new dict replaces the record, so a
\* self.status that referred to the old one no longer is the record
SetSourceWrite ==
    /\ ctl.pc = "ss_write"
    /\ camera_status' = [camera_status EXCEPT
                            ![ctl.cam] = SourceStatus(ctl.kind, ctl.locator)]
    /\ aliased' = [aliased EXCEPT ![ctl.cam] = FALSE]
    /\ status_lock' = Free
    /\ ctl' = [ctl EXCEPT !.pc = "ss_start"]
    /\ UNCHANGED <<counters, video_processors, frame_queue, maxsize, model, running,
                   process_thread, status, proc_lock, workers, feed, lifecycle,
                   stopped_upto, stop_returned, restarted>>

\* person_positions of process_ip_camera
person_positions ==
    << [x |-> 100, y |-> 200, dx |-> 2, dy |-> 1, fallen |-> FALSE],
       [x |-> 300, y |-> 300, dx |-> -1, dy |-> 0, fallen |-> FALSE],
       [x |-> 500, y |-> 250, dx |-> 0, dy |-> -1, fallen |-> FALSE] >>

\* The locals of a worker thread: pos counts the frames read, count, fall,
\* detections and fall_bbox are people_count, fall_detected, detections and
\* fall_bbox of the frame in hand, tmp is the value an augmented assignment
\* of draw_statistics has read
NewWorker(kind, len) ==
    [kind |-> kind, pc |-> "loop", pos |-> 0, len |-> len,
     count |-> 0, fall |-> FALSE, fallen |-> {},
     detections |-> <<>>, fall_bbox |-> NoBox,
     persons |-> IF kind = "ip_camera" THEN person_positions ELSE <<>>,
     tmp |-> 0]

\* start_video_file / start_ip_camera: self.running = True and a new Thread,
\* whatever the instance was doing
start(c, kind, len) ==
    /\ running' = [running EXCEPT ![c] = TRUE]
    /\ workers' = [workers EXCEPT ![c] = Append(@, NewWorker(kind, len))]
    /\ process_thread' = [process_thread EXCEPT ![c] = Len(workers[c]) + 1]

\* processor = get_processor(camera_id); processor.start_...(...)
SetSourceStart ==
    /\ ctl.pc = "ss_start"
    /\ \E loaded \in LoadResults(ctl.cam) : get_processor(ctl.cam, loaded)
    /\ start(ctl.cam, ctl.kind, ctl.len)
    /\ lifecycle' = [lifecycle EXCEPT ![ctl.cam] = "Running"]
    /\ restarted' = [restarted EXCEPT ![ctl.cam] = (lifecycle[ctl.cam] = "Running")]
    /\ stop_returned' = [stop_returned EXCEPT ![ctl.cam] = FALSE]
    /\ ctl' = IdleCtl
    /\ UNCHANGED <<counters, camera_status, status_lock, frame_queue, maxsize, status,
                   aliased, proc_lock, feed, stopped_upto>>

\* close_camera up to "with status_lock:"
CloseCamera(c) ==
    /\ ctl.pc = "idle"
    /\ status_lock = Free
    /\ status_lock' = CtlThread
    /\ ctl' = [IdleCtl EXCEPT !.pc = "cl_write", !.op = "close_camera", !.cam = c]
    /\ UNCHANGED <<counters, camera_status, video_processors, frame_queue, maxsize, model,
                   running, process_thread, status, aliased, proc_lock, workers,
                   feed, lifecycle, stopped_upto, stop_returned, restarted>>

\* A close that resets the whole collection
CloseWriteAll ==
    /\ ctl.pc = "cl_write"
    /\ camera_status' = [c \in Cameras |-> OfflineStatus]
    /\ aliased' = [c \in Cameras |-> FALSE]
    /\ status_lock' = Free
    /\ ctl' = IF ctl.cam \in video_processors
              THEN [ctl EXCEPT !.pc = "stop"]
              ELSE IdleCtl
    /\ UNCHANGED <<counters, video_processors, frame_queue, maxsize, model,
                   running, process_thread, status, proc_lock, workers, feed,
                   lifecycle, stopped_upto, stop_returned, restarted>>

\* camera_status[camera_id] = {offline...}; then stop() if an instance exists
CloseWrite ==
    /\ ctl.pc = "cl_write"
    /\ camera_status' = [camera_status EXCEPT ![ctl.cam] = OfflineStatus]
    /\ aliased' = [aliased EXCEPT ![ctl.cam] = FALSE]
    /\ status_lock' = Free
    /\ ctl' = IF ctl.cam \in video_processors
              THEN [ctl EXCEPT !.pc = "stop"]
              ELSE IdleCtl
    /\ UNCHANGED <<counters, video_processors, frame_queue, maxsize, model, running,
                   process_thread, status, proc_lock, workers, feed, lifecycle,
                   stopped_upto, stop_returned, restarted>>

\* stop: self.running = False
StopFlag ==
    /\ ctl.pc = "stop"
    /\ running' = [running EXCEPT ![ctl.cam] = FALSE]
    /\ lifecycle' = [lifecycle EXCEPT ![ctl.cam] = "Stopped"]
    /\ ctl' = [ctl EXCEPT !.pc = IF process_thread[ctl.cam] # 0
                                 THEN "join" ELSE "drain"]
    /\ UNCHANGED <<counters, camera_status, status_lock, video_processors, frame_queue,
                   maxsize, model, process_thread, status, aliased, proc_lock,
                   workers, feed, stopped_upto, stop_returned, restarted>>

\* Thread.join() with no timeout
join_forever(c) == ~is_alive(c, process_thread[c])

\* self.process_thread.join(timeout=2) returns when the thread has ended or
\* when the two seconds are over
join(c) ==
    \/ ~is_alive(c, process_thread[c])
    \/ TRUE

StopJoin ==
    /\ ctl.pc = "join"
    /\ join(ctl.cam)
    /\ ctl' = [ctl EXCEPT !.pc = "drain"]
    /\ UNCHANGED <<counters, camera_status, status_lock, video_processors, frame_queue,
                   maxsize, model, running, process_thread, status, aliased,
                   proc_lock, workers, feed, lifecycle, stopped_upto,
                   stop_returned, restarted>>

\* while not self.frame_queue.empty(): ... ; stop returns when it is empty
StopDrainCheck ==
    /\ ctl.pc = "drain"
    /\ IF frame_queue[ctl.cam] = <<>>
       THEN /\ ctl' = IdleCtl
            /\ stop_returned' = [stop_returned EXCEPT ![ctl.cam] = TRUE]
            /\ stopped_upto' = [stopped_upto EXCEPT ![ctl.cam] = Len(workers[ctl.cam])]
       ELSE /\ ctl' = [ctl EXCEPT !.pc = "drain_get"]
            /\ UNCHANGED <<stop_returned, stopped_upto>>
    /\ UNCHANGED <<counters, camera_status, status_lock, video_processors, frame_queue,
                   maxsize, model, running, process_thread, status, aliased,
                   proc_lock, workers, feed, lifecycle, restarted>>

\* try: self.frame_queue.get_nowait() except: pass
StopDrainGet ==
    /\ ctl.pc = "drain_get"
    /\ frame_queue' = [frame_queue EXCEPT ![ctl.cam] =
                          IF @ = <<>> THEN @ ELSE Tail(@)]
    /\ ctl' = [ctl EXCEPT !.pc = "drain"]
    /\ UNCHANGED <<counters, camera_status, status_lock, video_processors, maxsize, model,
                   running, process_thread, status, aliased, proc_lock, workers,
                   feed, lifecycle, stopped_upto, stop_returned, restarted>>

\* get_status: with status_lock: return jsonify(camera_status)
GetStatus ==
    /\ ctl.pc = "idle"
    /\ status_lock = Free
    /\ status_lock' = CtlThread
    /\ ctl' = [IdleCtl EXCEPT !.pc = "gs_read", !.op = "get_status"]
    /\ UNCHANGED <<counters, camera_status, video_processors, frame_queue, maxsize, model,
                   running, process_thread, status, aliased, proc_lock, workers,
                   feed, lifecycle, stopped_upto, stop_returned, restarted>>

GetStatusReturn ==
    /\ ctl.pc = "gs_read"
    /\ status_lock' = Free
    /\ ctl' = IdleCtl
    /\ UNCHANGED <<counters, camera_status, video_processors, frame_queue, maxsize, model,
                   running, process_thread, status, aliased, proc_lock, workers,
                   feed, lifecycle, stopped_upto, stop_returned, restarted>>

----------------------------------------------------------------------------
(* Worker threads: process_video_file and process_ip_camera *)

SetWorker(c, w, rec) == workers' = [workers EXCEPT ![c][w] = rec]

\* A file worker that starts the file again when it has read the last frame
FileFrameLoop(c, w, frames, next) ==
    LET me == workers[c][w] IN
    IF ~running[c]
    THEN SetWorker(c, w, [me EXCEPT !.pc = "done"])
    ELSE \E raw \in frames :
            LET found == detect_people(model[c], raw)
                verdict == detect_fall(found.detections, FrameHeight)
            IN  SetWorker(c, w, [me EXCEPT !.pc = next,
                                           !.pos = IF @ = me.len THEN 1 ELSE @ + 1,
                                           !.count = found.count,
                                           !.fall = verdict.fall,
                                           !.detections = found.detections,
                                           !.fall_bbox = verdict.bbox])

\* One frame of process_video_file up to draw_detections: the loop test,
\* cap.read(), detect_people, detect_fall.  frames is what the file may hold,
\* next is where the thread goes on.
FileFrameTo(c, w, frames, next) ==
    LET me == workers[c][w] IN
    IF ~running[c] \/ me.pos = me.len
    THEN SetWorker(c, w, [me EXCEPT !.pc = "done"])
    ELSE \E raw \in frames :
            LET found == detect_people(model[c], raw)
                verdict == detect_fall(found.detections, FrameHeight)
            IN  SetWorker(c, w, [me EXCEPT !.pc = next,
                                           !.pos = @ + 1,
                                           !.count = found.count,
                                           !.fall = verdict.fall,
                                           !.detections = found.detections,
                                           !.fall_bbox = verdict.bbox])

FileFrame(c, w) == FileFrameTo(c, w, RawFrames, "lock")

\* One frame of process_ip_camera up to draw_detections: the loop test, the
\* markers (each one not fallen may fall), the number of detections made from
\* them and the fall flag.  Where the markers are and the boxes drawn around
\* them are followed by IpFrameMarkers.
IpFrameTo(c, w, next) ==
    LET me == workers[c][w] IN
    IF ~running[c]
    THEN SetWorker(c, w, [me EXCEPT !.pc = "done"])
    ELSE \E falling \in SUBSET ((Persons \cap MayFall) \ me.fallen) :
            LET fallen == me.fallen \cup falling
            IN  SetWorker(c, w, [me EXCEPT !.pc = next,
                                           !.fallen = fallen,
                                           !.count = NumPersons,
                                           !.fall = (fallen # {})])

IpFrame(c, w) == IpFrameTo(c, w, "lock")

WorkerFrame(c, w) ==
    /\ w \in 1..Len(workers[c])
    /\ workers[c][w].pc = "loop"
    /\ IF workers[c][w].kind = "video_file" THEN FileFrame(c, w) ELSE IpFrame(c, w)
    /\ UNCHANGED <<counters, camera_status, status_lock, video_processors, frame_queue,
                   maxsize, model, running, process_thread, status, aliased,
                   proc_lock, feed, ctl, lifecycle, stopped_upto, stop_returned,
                   restarted>>

\* with self.status_lock: (entering)
WorkerLock(c, w) ==
    /\ w \in 1..Len(workers[c])
    /\ workers[c][w].pc = "lock"
    /\ proc_lock[c] = Free
    /\ proc_lock' = [proc_lock EXCEPT ![c] = WorkerThread(c, w)]
    /\ SetWorker(c, w, [workers[c][w] EXCEPT !.pc = "write"])
    /\ UNCHANGED <<counters, camera_status, status_lock, video_processors, frame_queue,
                   maxsize, model, running, process_thread, status, aliased,
                   feed, ctl, lifecycle, stopped_upto, stop_returned, restarted>>

\* The three writes to self.status and the release of self.status_lock.  The
\* writes reach camera_status[c] only when self.status is that very dict.
WorkerWrite(c, w) ==
    /\ w \in 1..Len(workers[c])
    /\ workers[c][w].pc = "write"
    /\ LET new == WorkerStatusWrite(status[c], workers[c][w].count, workers[c][w].fall)
       IN  /\ status' = [status EXCEPT ![c] = new]
           /\ camera_status' = IF aliased[c]
                               THEN [camera_status EXCEPT ![c] = new]
                               ELSE camera_status
    /\ proc_lock' = [proc_lock EXCEPT ![c] = Free]
    /\ SetWorker(c, w, [workers[c][w] EXCEPT !.pc = "full", !.count = 0,
                                              !.fall = FALSE,
                                              !.detections = <<>>,
                                              !.fall_bbox = NoBox])
    /\ UNCHANGED <<counters, status_lock, video_processors, frame_queue, maxsize, model,
                   running, process_thread, aliased, feed, ctl, lifecycle,
                   stopped_upto, stop_returned, restarted>>

\* full() that answers one frame early
full_early(c) == Len(frame_queue[c]) >= maxsize[c] - 1

\* queue.Queue.full()
full(c) == Len(frame_queue[c]) >= maxsize[c]

\* if self.frame_queue.full():
WorkerFull(c, w) ==
    /\ w \in 1..Len(workers[c])
    /\ workers[c][w].pc = "full"
    /\ SetWorker(c, w, [workers[c][w] EXCEPT !.pc = IF full(c) THEN "get" ELSE "put"])
    /\ UNCHANGED <<counters, camera_status, status_lock, video_processors, frame_queue,
                   maxsize, model, running, process_thread, status, aliased,
                   proc_lock, feed, ctl, lifecycle, stopped_upto, stop_returned,
                   restarted>>

\* self.frame_queue.get(): blocks while the queue is empty
WorkerGet(c, w) ==
    /\ w \in 1..Len(workers[c])
    /\ workers[c][w].pc = "get"
    /\ frame_queue[c] # <<>>
    /\ frame_queue' = [frame_queue EXCEPT ![c] = Tail(@)]
    /\ SetWorker(c, w, [workers[c][w] EXCEPT !.pc = "put"])
    /\ UNCHANGED <<counters, camera_status, status_lock, video_processors, maxsize, model,
                   running, process_thread, status, aliased, proc_lock, feed,
                   ctl, lifecycle, stopped_upto, stop_returned, restarted>>

\* The frame a worker has in hand: the thread that made it and, for a file,
\* its position in the file
Frame(c, w) == [run |-> w, n |-> workers[c][w].pos]

\* self.frame_queue.put(processed_frame): blocks while the queue is full;
\* then time.sleep and the next round of the loop
WorkerPut(c, w) ==
    /\ w \in 1..Len(workers[c])
    /\ workers[c][w].pc = "put"
    /\ ~full(c)
    /\ frame_queue' = [frame_queue EXCEPT ![c] = Append(@, Frame(c, w))]
    /\ SetWorker(c, w, [workers[c][w] EXCEPT !.pc = "loop"])
    /\ UNCHANGED <<counters, camera_status, status_lock, video_processors, maxsize, model,
                   running, process_thread, status, aliased, proc_lock, feed,
                   ctl, lifecycle, stopped_upto, stop_returned, restarted>>

WorkerStep(c, w) ==
    \/ WorkerFrame(c, w)
    \/ WorkerLock(c, w)
    \/ WorkerWrite(c, w)
    \/ WorkerFull(c, w)
    \/ WorkerGet(c, w)
    \/ WorkerPut(c, w)

----------------------------------------------------------------------------
(* draw_statistics: the running statistics of an instance.  Each of its      *)
(* three assignments reads an attribute of the instance and stores a new    *)
(* value in it with no lock held; another worker of the same instance can   *)
(* run between the read and the store.  Spec, SoloSpec and SinkSpec follow  *)
(* the frames and leave the statistics out; StatsSpec follows them.         *)

MaxStatFrames == 4      \* frames begun on one instance in StatsSpec

Max(a, b) == IF a > b THEN a ELSE b

InDraw(c, w) ==
    workers[c][w].pc \in {"total_rd", "total_wr", "frames_rd", "frames_wr",
                          "max_rd", "max_wr"}

\* A frame up to the call of draw_detections, which calls draw_statistics
StatFrame(c, w) ==
    /\ w \in 1..Len(workers[c])
    /\ workers[c][w].pc = "loop"
    /\ ~running[c] \/ annotated[c].begun < MaxStatFrames
    /\ IF workers[c][w].kind = "video_file"
       THEN FileFrameTo(c, w, RawFrames, "total_rd")
       ELSE IpFrameTo(c, w, "total_rd")
    /\ annotated' = [annotated EXCEPT ![c].begun =
                         IF workers'[c][w].pc = "done" THEN @ ELSE @ + 1]
    /\ UNCHANGED <<camera_status, status_lock, video_processors, frame_queue,
                   maxsize, model, running, process_thread, status, aliased,
                   proc_lock, feed, ctl, lifecycle, stopped_upto, stop_returned,
                   restarted, total_people_count, frame_count, max_people_count>>

\* The read of an attribute by one of the three assignments
DrawRead(c, w, at, attr, next) ==
    /\ w \in 1..Len(workers[c])
    /\ workers[c][w].pc = at
    /\ SetWorker(c, w, [workers[c][w] EXCEPT !.pc = next, !.tmp = attr[c]])
    /\ UNCHANGED <<counters, camera_status, status_lock, video_processors,
                   frame_queue, maxsize, model, running, process_thread, status,
                   aliased, proc_lock, feed, ctl, lifecycle, stopped_upto,
                   stop_returned, restarted>>

\* self.total_people_count += people_count (the store)
TotalWrite(c, w) ==
    /\ w \in 1..Len(workers[c])
    /\ workers[c][w].pc = "total_wr"
    /\ total_people_count' = [total_people_count EXCEPT
                                 ![c] = workers[c][w].tmp + workers[c][w].count]
    /\ SetWorker(c, w, [workers[c][w] EXCEPT !.pc = "frames_rd", !.tmp = 0])
    /\ UNCHANGED <<camera_status, status_lock, video_processors, frame_queue,
                   maxsize, model, running, process_thread, status, aliased,
                   proc_lock, feed, ctl, lifecycle, stopped_upto, stop_returned,
                   restarted, frame_count, max_people_count, annotated>>

\* self.frame_count += 1 (the store)
FramesWrite(c, w) ==
    /\ w \in 1..Len(workers[c])
    /\ workers[c][w].pc = "frames_wr"
    /\ frame_count' = [frame_count EXCEPT ![c] = workers[c][w].tmp + 1]
    /\ SetWorker(c, w, [workers[c][w] EXCEPT !.pc = "max_rd", !.tmp = 0])
    /\ UNCHANGED <<camera_status, status_lock, video_processors, frame_queue,
                   maxsize, model, running, process_thread, status, aliased,
                   proc_lock, feed, ctl, lifecycle, stopped_upto, stop_returned,
                   restarted, total_people_count, max_people_count, annotated>>

\* self.max_people_count = max(self.max_people_count, people_count) (the
\* store); draw_statistics and draw_detections return after it
MaxWrite(c, w) ==
    /\ w \in 1..Len(workers[c])
    /\ workers[c][w].pc = "max_wr"
    /\ max_people_count' = [max_people_count EXCEPT
                               ![c] = Max(workers[c][w].tmp, workers[c][w].count)]
    /\ annotated' = [annotated EXCEPT
                        ![c].n = @ + 1,
                        ![c].sum = @ + workers[c][w].count,
                        ![c].max = Max(@, workers[c][w].count)]
    /\ SetWorker(c, w, [workers[c][w] EXCEPT !.pc = "lock", !.tmp = 0])
    /\ UNCHANGED <<camera_status, status_lock, video_processors, frame_queue,
                   maxsize, model, running, process_thread, status, aliased,
                   proc_lock, feed, ctl, lifecycle, stopped_upto, stop_returned,
                   restarted, total_people_count, frame_count>>

draw_statistics(c, w) ==
    \/ DrawRead(c, w, "total_rd", total_people_count, "total_wr")
    \/ TotalWrite(c, w)
    \/ DrawRead(c, w, "frames_rd", frame_count, "frames_wr")
    \/ FramesWrite(c, w)
    \/ DrawRead(c, w, "max_rd", max_people_count, "max_wr")
    \/ MaxWrite(c, w)

\* A worker thread with the statistics followed
StatWorkerStep(c, w) ==
    \/ StatFrame(c, w)
    \/ draw_statistics(c, w)
    \/ WorkerLock(c, w)
    \/ WorkerWrite(c, w)
    \/ WorkerFull(c, w)
    \/ WorkerGet(c, w)
    \/ WorkerPut(c, w)

----------------------------------------------------------------------------
(* The markers of the synthetic source: where they are, how they move and   *)
(* fall, and the boxes made around them.  MarkerSpec follows them; the      *)
(* other specifications keep only which markers have fallen (IpFrameTo).    *)

MaxTicks == 5           \* frames of a synthetic source in MarkerSpec

\* A marker that goes on moving after its fall
tick_drift(person, falls) ==
    LET x == person.x + person.dx
        y == person.y + person.dy
    IN  [x |-> x, y |-> y,
         dx |-> IF x < 50 \/ x > FrameWidth - 50 THEN -person.dx ELSE person.dx,
         dy |-> IF y < 100 \/ y > FrameHeight - 100 THEN -person.dy ELSE person.dy,
         fallen |-> person.fallen \/ falls]

\* One round of the loop over person_positions for one marker: the move and
\* the bounce of a marker that has not fallen, then the fall when
\* np.random.random() < 0.001 (falls)
tick(person, falls) ==
    LET moved ==
            IF ~person.fallen
            THEN LET x == person.x + person.dx
                     y == person.y + person.dy
                 IN  [person EXCEPT
                         !.x = x,
                         !.y = y,
                         !.dx = IF x < 50 \/ x > FrameWidth - 50 THEN -@ ELSE @,
                         !.dy = IF y < 100 \/ y > FrameHeight - 100 THEN -@ ELSE @]
            ELSE person
    IN  IF falls /\ ~moved.fallen
        THEN [moved EXCEPT !.fallen = TRUE, !.dx = 0, !.dy = 0]
        ELSE moved

\* box_size and the four corners; // is the floor division of Python
marker_box(person) ==
    LET box_size == IF ~person.fallen THEN 30 ELSE 60
    IN  Box(person.x - (box_size \div 2),
            person.y - (box_size \div (IF ~person.fallen THEN 2 ELSE 1)),
            person.x + (box_size \div 2),
            person.y + (box_size \div (IF person.fallen THEN 2 ELSE 1)),
            0, 90)

\* fall_bbox after the loop: the box of the last marker that has fallen
last_fallen_box(persons) ==
    LET F == {i \in 1..Len(persons) : persons[i].fallen}
    IN  IF F = {} THEN NoBox
        ELSE marker_box(persons[CHOOSE i \in F : \A j \in F : j <= i]).bbox

\* One frame of process_ip_camera up to draw_detections, markers and boxes
\* included
IpFrameMarkers(c, w) ==
    /\ w \in 1..Len(workers[c])
    /\ workers[c][w].pc = "loop"
    /\ workers[c][w].kind = "ip_camera"
    /\ LET me == workers[c][w] IN
       IF ~running[c]
       THEN SetWorker(c, w, [me EXCEPT !.pc = "done"])
       ELSE /\ me.pos < MaxTicks
            /\ \E falling \in SUBSET (Persons \ me.fallen) :
                  LET persons == [i \in Persons |->
                                    tick(me.persons[i], i \in falling)]
                      detections == [i \in Persons |-> marker_box(persons[i])]
                  IN  SetWorker(c, w, [me EXCEPT
                         !.pc = "lock",
                         !.pos = @ + 1,
                         !.persons = persons,
                         !.fallen = {i \in Persons : persons[i].fallen},
                         !.detections = detections,
                         !.count = Len(detections),
                         !.fall = (\E i \in Persons : persons[i].fallen),
                         !.fall_bbox = last_fallen_box(persons)])
    /\ UNCHANGED <<counters, camera_status, status_lock, video_processors,
                   frame_queue, maxsize, model, running, process_thread, status,
                   aliased, proc_lock, feed, ctl, lifecycle, stopped_upto,
                   stop_returned, restarted>>

MarkerWorkerStep(c, w) ==
    \/ IpFrameMarkers(c, w)
    \/ WorkerLock(c, w)
    \/ WorkerWrite(c, w)
    \/ WorkerFull(c, w)
    \/ WorkerGet(c, w)
    \/ WorkerPut(c, w)

----------------------------------------------------------------------------
(* Exceptions inside the loop of a worker.  detect_people has a try/except  *)
(* of its own and returns (frame, 0, []); nothing else in the body of the   *)
(* loops is inside a try, so any other exception leaves the target function *)
(* of the thread and the thread ends.                                       *)

\* The loop test has passed: the worker is about to process a frame
AtFrame(c, w) ==
    /\ w \in 1..Len(workers[c])
    /\ workers[c][w].pc = "loop"
    /\ running[c]
    /\ workers[c][w].kind = "video_file" => workers[c][w].pos < workers[c][w].len

\* self.model(frame) raises inside detect_people: caught there, the frame
\* goes on with no detection
DetectRaises(c, w) ==
    /\ AtFrame(c, w)
    /\ workers[c][w].kind = "video_file"
    /\ model[c]
    /\ SetWorker(c, w, [workers[c][w] EXCEPT !.pc = "lock", !.pos = @ + 1,
                                              !.count = 0, !.fall = FALSE,
                                              !.detections = <<>>,
                                              !.fall_bbox = NoBox])
    /\ UNCHANGED <<counters, camera_status, status_lock, video_processors,
                   frame_queue, maxsize, model, running, process_thread, status,
                   aliased, proc_lock, feed, ctl, lifecycle, stopped_upto,
                   stop_returned, restarted>>

\* detect_fall or draw_detections raises (a cv2.error, a MemoryError):
\* nothing catches it
FrameRaises(c, w) ==
    /\ AtFrame(c, w)
    /\ SetWorker(c, w, [workers[c][w] EXCEPT
                            !.pc = "done",
                            !.pos = IF workers[c][w].kind = "video_file"
                                    THEN @ + 1 ELSE @])
    /\ UNCHANGED <<counters, camera_status, status_lock, video_processors,
                   frame_queue, maxsize, model, running, process_thread, status,
                   aliased, proc_lock, feed, ctl, lifecycle, stopped_upto,
                   stop_returned, restarted>>

\* The status update raises inside "with self.status_lock:": the lock is
\* released on the way out and nothing catches the exception
WriteRaises(c, w) ==
    /\ w \in 1..Len(workers[c])
    /\ workers[c][w].pc = "write"
    /\ proc_lock' = [proc_lock EXCEPT ![c] = Free]
    /\ SetWorker(c, w, [workers[c][w] EXCEPT !.pc = "done", !.count = 0,
                                              !.fall = FALSE,
                                              !.detections = <<>>,
                                              !.fall_bbox = NoBox])
    /\ UNCHANGED <<counters, camera_status, status_lock, video_processors,
                   frame_queue, maxsize, model, running, process_thread, status,
                   aliased, feed, ctl, lifecycle, stopped_upto, stop_returned,
                   restarted>>

WorkerFault(c, w) ==
    \/ DetectRaises(c, w)
    \/ FrameRaises(c, w)
    \/ WriteRaises(c, w)

\* A worker thread of a file whose frames are those of ClassifyFrames
ClassifyFrame(c, w) ==
    /\ w \in 1..Len(workers[c])
    /\ workers[c][w].pc = "loop"
    /\ FileFrameTo(c, w, ClassifyFrames, "lock")
    /\ UNCHANGED <<counters, camera_status, status_lock, video_processors,
                   frame_queue, maxsize, model, running, process_thread, status,
                   aliased, proc_lock, feed, ctl, lifecycle, stopped_upto,
                   stop_returned, restarted>>

ClassifyWorkerStep(c, w) ==
    \/ ClassifyFrame(c, w)
    \/ WorkerLock(c, w)
    \/ WorkerWrite(c, w)
    \/ WorkerFull(c, w)
    \/ WorkerGet(c, w)
    \/ WorkerPut(c, w)

----------------------------------------------------------------------------
(* test_feed and its generator *)

\* test_feed: processor = get_processor(camera_id), then the generator runs
FeedOpen(c) ==
    /\ feed[c] = "off"
    /\ \E loaded \in LoadResults(c) : get_processor(c, loaded)
    /\ lifecycle' = IF c \in video_processors THEN lifecycle
                    ELSE [lifecycle EXCEPT ![c] = "Idle"]
    /\ feed' = [feed EXCEPT ![c] = "get"]
    /\ UNCHANGED <<counters, camera_status, status_lock, frame_queue, maxsize, running,
                   process_thread, status, aliased, proc_lock, workers, ctl,
                   stopped_upto, stop_returned, restarted>>

\* frame = frame_queues[camera_id].get(timeout=1) when a frame is there; on
\* queue.Empty the generator yields a blank frame and comes back here
FeedGet(c) ==
    /\ feed[c] = "get"
    /\ frame_queue[c] # <<>>
    /\ frame_queue' = [frame_queue EXCEPT ![c] = Tail(@)]
    /\ feed' = [feed EXCEPT ![c] = "lock"]
    /\ UNCHANGED <<counters, camera_status, status_lock, video_processors, maxsize, model,
                   running, process_thread, status, aliased, proc_lock, workers,
                   ctl, lifecycle, stopped_upto, stop_returned, restarted>>

\* with status_lock: (entering)
FeedLock(c) ==
    /\ feed[c] = "lock"
    /\ status_lock = Free
    /\ status_lock' = FeedThread(c)
    /\ feed' = [feed EXCEPT ![c] = "update"]
    /\ UNCHANGED <<counters, camera_status, video_processors, frame_queue, maxsize, model,
                   running, process_thread, status, aliased, proc_lock, workers,
                   ctl, lifecycle, stopped_upto, stop_returned, restarted>>

\* status = camera_status[camera_id]; processor.update_status(status):
\* under self.status_lock, self.status becomes the dict of the record itself
FeedUpdate(c) ==
    /\ feed[c] = "update"
    /\ proc_lock[c] = Free
    /\ status' = [status EXCEPT ![c] = camera_status[c]]
    /\ aliased' = [aliased EXCEPT ![c] = TRUE]
    /\ status_lock' = Free
    /\ feed' = [feed EXCEPT ![c] = "get"]
    /\ UNCHANGED <<counters, camera_status, video_processors, frame_queue, maxsize, model,
                   running, process_thread, proc_lock, workers, ctl, lifecycle,
                   stopped_upto, stop_returned, restarted>>

FeedStep(c) ==
    \/ FeedGet(c)
    \/ FeedLock(c)
    \/ FeedUpdate(c)

----------------------------------------------------------------------------
(* The specifications *)

CtlStep ==
    \/ SetSourceWrite
    \/ SetSourceStart
    \/ CloseWrite
    \/ StopFlag
    \/ StopJoin
    \/ StopDrainCheck
    \/ StopDrainGet
    \/ GetStatusReturn

Next ==
    \/ \E c \in Driven, ip \in IpInputs : SetIp(c, ip)
    \/ \E c \in Driven, f \in FileNames, len \in 1..MaxFileLen : UploadFile(c, f, len)
    \/ \E c \in Driven : CloseCamera(c)
    \/ GetStatus
    \/ CtlStep
    \/ \E c \in Driven : FeedOpen(c)
    \/ \E c \in Driven : FeedStep(c)
    \/ \E c \in Driven, w \in 1..MaxStarts : WorkerStep(c, w)

Spec == Init /\ [][Next]_vars

\* One source per camera: the collaborator sets a source once, and may open
\* the feed, ask for the status and close the camera at any time.
SoloNext ==
    \/ \E c \in Driven, ip \in IpInputs : workers[c] = <<>> /\ SetIp(c, ip)
    \/ \E c \in Driven, f \in FileNames, len \in 1..MaxFileLen :
          workers[c] = <<>> /\ UploadFile(c, f, len)
    \/ \E c \in Driven : CloseCamera(c)
    \/ GetStatus
    \/ CtlStep
    \/ \E c \in Driven : FeedOpen(c)
    \/ \E c \in Driven : FeedStep(c)
    \/ \E c \in Driven : WorkerStep(c, 1)

SoloSpec == Init /\ [][SoloNext]_vars

\* Every thread that can take a step eventually takes one: the request thread
\* inside a handler, the generator of an open feed, and each worker thread.
Fairness ==
    /\ WF_vars(CtlStep)
    /\ \A c \in Driven : WF_vars(FeedStep(c))
    /\ \A c \in Driven : \A w \in 1..MaxStarts : WF_vars(WorkerStep(c, w))

FairSoloSpec == SoloSpec /\ Fairness

FairSpec == Spec /\ Fairness

\* A sink of the code's capacity, one uploaded file of SinkFrames frames, its
\* worker, and nothing that takes frames out.
SinkInit == InitWith(FrameQueueMaxSize)

SinkNext ==
    \/ \E c \in Driven, f \in FileNames :
          workers[c] = <<>> /\ UploadFile(c, f, SinkFrames)
    \/ SetSourceWrite
    \/ SetSourceStart
    \/ \E c \in Driven : WorkerStep(c, 1)

SinkSpec == SinkInit /\ [][SinkNext]_vars

\* The instance of a camera, the synthetic sources set on it, close_camera
\* and the workers, each frame with its draw_statistics; no consumer.
StatsNext ==
    \/ \E c \in Driven, ip \in IpInputs : SetIp(c, ip)
    \/ \E c \in Driven : CloseCamera(c)
    \/ SetSourceWrite
    \/ SetSourceStart
    \/ CloseWrite
    \/ StopFlag
    \/ StopJoin
    \/ StopDrainCheck
    \/ StopDrainGet
    \/ \E c \in Driven, w \in 1..MaxStarts : StatWorkerStep(c, w)

StatsSpec == Init /\ [][StatsNext]_vars

\* Two cameras side by side: a synthetic source on the first, its feed and
\* its worker; an uploaded file on the second, its worker and close_camera.
Pair == {1, 2}

PairNext ==
    \/ \E ip \in IpInputs : workers[1] = <<>> /\ SetIp(1, ip)
    \/ \E f \in FileNames, len \in 1..MaxFileLen :
          workers[2] = <<>> /\ UploadFile(2, f, len)
    \/ CloseCamera(2)
    \/ SetSourceWrite
    \/ SetSourceStart
    \/ CloseWrite
    \/ StopFlag
    \/ StopJoin
    \/ StopDrainCheck
    \/ StopDrainGet
    \/ FeedOpen(1)
    \/ FeedStep(1)
    \/ \E c \in Pair : WorkerStep(c, 1)

PairSpec == Init /\ [][PairNext]_vars

\* One synthetic source, its worker with the markers followed, and
\* close_camera; no consumer.
MarkerNext ==
    \/ \E c \in Driven, ip \in IpInputs : workers[c] = <<>> /\ SetIp(c, ip)
    \/ \E c \in Driven : CloseCamera(c)
    \/ SetSourceWrite
    \/ SetSourceStart
    \/ CloseWrite
    \/ StopFlag
    \/ StopJoin
    \/ StopDrainCheck
    \/ StopDrainGet
    \/ \E c \in Driven : MarkerWorkerStep(c, 1)

MarkerSpec == Init /\ [][MarkerNext]_vars

\* SoloSpec with exceptions in the worker
FaultNext ==
    \/ SoloNext
    \/ \E c \in Driven : WorkerFault(c, 1)

FaultSpec == Init /\ [][FaultNext]_vars

\* One uploaded file, long enough to fill the queue, whose frames hold the
\* boxes of ClassifyBoxes, and its worker.
ClassifyNext ==
    \/ \E c \in Driven, f \in FileNames :
          workers[c] = <<>> /\ UploadFile(c, f, QueueBound + 1)
    \/ SetSourceWrite
    \/ SetSourceStart
    \/ \E c \in Driven : ClassifyWorkerStep(c, 1)

ClassifySpec == Init /\ [][ClassifyNext]_vars

----------------------------------------------------------------------------
(* Claims *)

HasWorker(c, w) == w \in 1..Len(workers[c])

\* A worker pushes a frame into the sink of camera c in this step
Pushes(c) == Len(frame_queue'[c]) > Len(frame_queue[c])

\* Worker w of camera c performs its per-frame status update in this step
WritesStatus(c, w) ==
    /\ HasWorker(c, w)
    /\ workers[c][w].pc = "write"
    /\ workers'[c][w].pc = "full"

\* A frame made by a thread that was spawned before the last stop() returned
Stale(c, f) == f.run <= stopped_upto[c]

\* C1: for every camera, in every reachable state, at most one worker thread
\* is alive.
C1_OneWorkerPerCamera ==
    \A c \in Cameras : Cardinality(AliveWorkers(c)) <= 1

\* C2: once a start was issued on a running pipeline and stop() has since
\* returned, no worker pushes a frame into that camera's sink any more.
C2_NoPushAfterStop ==
    [][\A c \in Cameras : (restarted[c] /\ stop_returned[c]) => ~Pushes(c)]_vars

\* C3: when stop() returns the sink holds no frame of the stopped run, and no
\* frame of a worker of a stopped run is handed to the streaming consumer
\* afterwards, also after a later start.
C3_NoStaleFrameServed ==
    [][\A c \in Cameras :
          /\ (~stop_returned[c] /\ stop_returned'[c]) =>
                \A i \in 1..Len(frame_queue'[c]) :
                    frame_queue'[c][i].run > stopped_upto'[c]
          /\ (feed[c] = "get" /\ feed'[c] = "lock") =>
                ~Stale(c, Head(frame_queue[c]))]_vars

\* A worker is inside its push: the full() test, the get() that drops the
\* oldest frame, the put()
InPush(c, w) == HasWorker(c, w) /\ workers[c][w].pc \in {"full", "get", "put"}

\* C4: every push a worker begins eventually completes.
C4_PushCompletes ==
    \A c \in Driven : \A w \in 1..MaxStarts : InPush(c, w) ~> ~InPush(c, w)

InStop == ctl.pc \in {"stop", "join", "drain", "drain_get"}

\* C5: stop() always returns to its caller, whether or not the worker has
\* ended and whether or not it pushes a frame during the drain.
C5_StopReturns == InStop ~> (ctl.pc = "idle")

\* stop() has returned while the worker it waited for is still alive
C5_Witness ==
    \E c \in Cameras : stop_returned[c] /\ AliveWorkers(c) # {}

Min(a, b) == IF a < b THEN a ELSE b

\* The frames a lone file worker has pushed so far
PushedCount(me) ==
    IF me.pc \in {"loop", "done"} THEN me.pos ELSE me.pos - 1

\* C6: with one worker and no consumer, between two pushes the sink holds
\* exactly the last min(N, capacity) of the N frames pushed, oldest first, and
\* it never holds more than its capacity.
C6_SinkKeepsNewest ==
    \A c \in Cameras :
        /\ Len(frame_queue[c]) <= maxsize[c]
        /\ (HasWorker(c, 1) /\ workers[c][1].pc \notin {"get", "put"}) =>
              LET N == PushedCount(workers[c][1])
                  k == Min(N, maxsize[c])
              IN  frame_queue[c] = [i \in 1..k |-> [run |-> 1, n |-> N - k + i]]

\* All SinkFrames frames pushed: the sink holds the last FrameQueueMaxSize
C6_Witness ==
    \E c \in Cameras :
        /\ HasWorker(c, 1)
        /\ workers[c][1].pc = "done"
        /\ workers[c][1].pos = SinkFrames
        /\ Len(frame_queue[c]) = FrameQueueMaxSize
        /\ Head(frame_queue[c]).n = SinkFrames - FrameQueueMaxSize + 1
        /\ frame_queue[c][FrameQueueMaxSize].n = SinkFrames

\* C7: start is performed only on an instance that was never started and
\* never stopped.
C7_StartOnlyWhenIdle ==
    [][\A c \in Cameras :
          Len(workers'[c]) > Len(workers[c]) => lifecycle[c] \in {"None", "Idle"}]_vars

\* C8: each per-frame status update of a worker puts the frame's people count
\* and fall flag into the camera's record that get_status returns.
C8_StatusFollowsFrames ==
    [][\A c \in Cameras : \A w \in 1..MaxStarts :
          WritesStatus(c, w) =>
             /\ camera_status'[c].count = workers[c][w].count
             /\ camera_status'[c].fall = workers[c][w].fall]_vars

SameSource(s, t) ==
    /\ s.type = t.type
    /\ s.url = t.url
    /\ (s.keys \cap {"type", "url"}) = (t.keys \cap {"type", "url"})

\* C9: a step of a worker leaves type and url of the camera's record and of
\* the dict it writes to as they are, adding at most the keys count, fall and
\* timestamp; type and url of a record change only in the write of set_ip,
\* upload_file or close_camera for that camera.
C9_WorkerKeepsSource ==
    [][\A c \in Cameras :
          /\ (\E w \in 1..MaxStarts : HasWorker(c, w) /\ workers'[c][w] # workers[c][w]) =>
                /\ SameSource(camera_status[c], camera_status'[c])
                /\ SameSource(status[c], status'[c])
                /\ status'[c].keys \ status[c].keys \subseteq {"count", "fall", "timestamp"}
          /\ ~SameSource(camera_status[c], camera_status'[c]) =>
                /\ ctl.pc \in {"ss_write", "cl_write"}
                /\ ctl.cam = c
                /\ ctl'.pc # ctl.pc]_vars

\* A worker has written a frame's count into the record of its ip camera
C9_Witness ==
    \E c \in Cameras :
        /\ aliased[c]
        /\ camera_status[c].type = "ip_camera"
        /\ camera_status[c].count = NumPersons

\* C10: whoever reads or writes a CameraStatus record holds status_lock.
C10_StatusUnderLock ==
    /\ ctl.pc \in {"ss_write", "cl_write", "gs_read"} => status_lock = CtlThread
    /\ \A c \in Cameras :
          /\ feed[c] = "update" => status_lock = FeedThread(c)
          /\ \A w \in 1..MaxStarts :
                (HasWorker(c, w) /\ workers[c][w].pc = "write" /\ aliased[c]) =>
                   status_lock = WorkerThread(c, w)

\* No worker of camera c is inside a frame's draw_statistics
StatsAtRest(c) ==
    /\ annotated[c].begun = annotated[c].n
    /\ \A w \in 1..Len(workers[c]) : ~InDraw(c, w)

\* C11: once draw_statistics is over for N frames with people counts c1..cN
\* on one instance, frame_count is N, total_people_count is c1 + ... + cN and
\* max_people_count is the largest of them, whichever workers of the instance
\* annotated the frames and however they interleaved.
C11_StatsExact ==
    \A c \in Cameras :
        StatsAtRest(c) =>
            /\ frame_count[c] = annotated[c].n
            /\ total_people_count[c] = annotated[c].sum
            /\ max_people_count[c] = annotated[c].max

\* A detection that shows a fall: positive width, height / width below 0.8,
\* centre below 0.6 of the frame height, height above 0.3 of it
Qualifies(b, H) ==
    LET x1 == b.bbox[1]
        y1 == b.bbox[2]
        x2 == b.bbox[3]
        y2 == b.bbox[4]
    IN  /\ x2 - x1 > 0
        /\ 10 * (y2 - y1) < 8 * (x2 - x1)
        /\ 10 * (y1 + y2) > 12 * H
        /\ 10 * (y2 - y1) > 3 * H

\* A file worker that has just classified the frame in hand
Classified(c, w) ==
    /\ HasWorker(c, w)
    /\ workers[c][w].kind = "video_file"
    /\ workers[c][w].pc = "lock"

\* C12: the classifier reports a fall exactly when some detection of the
\* frame qualifies; the box it returns is then the box of the first
\* qualifying detection in input order, and no box when there is no fall;
\* detections whose width is not positive are passed over and the scan goes
\* on behind them.
C12_ClassifyFirstMatch ==
    \A c \in Cameras : \A w \in 1..MaxStarts :
        Classified(c, w) =>
            LET me == workers[c][w]
                d == me.detections
                Hits == {i \in 1..Len(d) : Qualifies(d[i], FrameHeight)}
            IN  /\ me.fall = (Hits # {})
                /\ me.fall =>
                      \E i \in Hits : /\ \A j \in Hits : i <= j
                                      /\ me.fall_bbox = d[i].bbox
                /\ ~me.fall => me.fall_bbox = NoBox

\* A frame whose first box has width 0 and whose second box shows a fall:
\* the classifier has reported the second box
C12_Witness ==
    \E c \in Cameras :
        /\ Classified(c, 1)
        /\ workers[c][1].detections =
              << Box(100, 250, 100, 450, 0, 90), Box(100, 300, 400, 445, 0, 90) >>
        /\ workers[c][1].fall
        /\ workers[c][1].fall_bbox = <<100, 300, 400, 445>>

\* C13: an exception raised while a worker processes one frame does not end
\* the worker: a worker thread ends only at its loop test, on a cleared
\* running flag or at the end of its file.
C13_WorkerSurvivesFrame ==
    [][\A c \in Cameras : \A w \in 1..MaxStarts :
          (HasWorker(c, w) /\ is_alive(c, w) /\ workers'[c][w].pc = "done") =>
             /\ workers[c][w].pc = "loop"
             /\ ~AtFrame(c, w)]_vars

\* A file worker of an instance whose model failed to load
Unloaded(c, w) ==
    /\ HasWorker(c, w)
    /\ workers[c][w].kind = "video_file"
    /\ ~model[c]

\* C14: on an instance whose model failed to load, a file worker goes on
\* processing every frame it reads, the detector gives it a people count of 0
\* and no detection, and the status update of the frame writes count 0 and
\* fall false.
C14_NoModelNoPeople ==
    [][\A c \in Cameras : \A w \in 1..MaxStarts :
          Unloaded(c, w) =>
             /\ (AtFrame(c, w) /\ workers'[c][w] # workers[c][w]) =>
                    /\ workers'[c][w].pc = "lock"
                    /\ workers'[c][w].count = 0
                    /\ workers'[c][w].detections = <<>>
                    /\ workers'[c][w].fall = FALSE
             /\ WritesStatus(c, w) =>
                    /\ status'[c].count = 0
                    /\ status'[c].fall = FALSE]_vars

\* Without a model the worker has processed the whole file and its last
\* status update wrote a count of 0
C14_Witness ==
    \E c \in Cameras :
        /\ Unloaded(c, 1)
        /\ workers[c][1].pc = "done"
        /\ workers[c][1].pos = workers[c][1].len
        /\ workers[c][1].len > 1
        /\ "count" \in status[c].keys
        /\ status[c].count = 0

\* The record of camera c is written in this step by a handler called for c
\* or by a worker of c
OwnWrite(c) ==
    \/ ctl.pc \in {"ss_write", "cl_write"} /\ ctl.cam = c /\ ctl'.pc # ctl.pc
    \/ \E w \in 1..MaxStarts : WritesStatus(c, w)

\* C15: every camera id 1..4 has a record with type, url, count and fall in
\* every reachable state, and a record changes only in a step of set_ip,
\* upload_file or close_camera called for that camera or of a worker of that
\* camera: no step removes a record or touches the record of another camera.
C15_RecordsPerCamera ==
    /\ [](/\ DOMAIN camera_status = Cameras
          /\ \A c \in Cameras :
                {"type", "url", "count", "fall"} \subseteq camera_status[c].keys)
    /\ [][\A c \in Cameras :
             camera_status'[c] # camera_status[c] => OwnWrite(c)]_vars

\* Camera 2 has been closed while the record of camera 1 holds the count its
\* worker wrote
C15_Witness ==
    /\ camera_status[1].type = "ip_camera"
    /\ camera_status[1].count = NumPersons
    /\ stop_returned[2]
    /\ camera_status[2].type = "offline"

\* A worker that has just made the fall flag and the box of the frame in hand
FrameJudged(c, w) == HasWorker(c, w) /\ workers[c][w].pc = "lock"

\* C16: for every frame a worker processes, of a file or of the synthetic
\* source, the fall flag it is about to write and the box it highlights are
\* the verdict of the fall classifier on the frame's detections and the frame
\* height: a fall exactly when a detection qualifies, with the box of the
\* first such detection.
C16_FallIsClassifierVerdict ==
    \A c \in Cameras : \A w \in 1..MaxStarts :
        FrameJudged(c, w) =>
            LET me == workers[c][w]
                verdict == detect_fall(me.detections, FrameHeight)
            IN  /\ me.fall = verdict.fall
                /\ me.fall_bbox = verdict.bbox

\* close_camera has returned for camera c and no set_ip or upload_file has
\* written its record since
Closed(c) ==
    /\ stop_returned[c]
    /\ ~(ctl.cam = c /\ ctl.pc = "ss_start")

\* C17: from the return of close_camera until the next set_ip or upload_file
\* for the camera, its record reads offline, no locator, count 0 and fall
\* false, whatever steps a worker of the closed run or the streaming
\* generator still take.
C17_ClosedStaysOffline ==
    \A c \in Cameras :
        Closed(c) =>
            /\ camera_status[c].type = "offline"
            /\ camera_status[c].url = "None"
            /\ camera_status[c].count = 0
            /\ camera_status[c].fall = FALSE

\* C18: total_people_count, frame_count and max_people_count of an instance
\* never decrease, and the steps of stop() and of a start on the instance
\* leave all three as they are.
C18_StatsNeverDecrease ==
    [][\A c \in Cameras :
          /\ total_people_count'[c] >= total_people_count[c]
          /\ frame_count'[c] >= frame_count[c]
          /\ max_people_count'[c] >= max_people_count[c]
          /\ ctl' # ctl =>
                /\ total_people_count'[c] = total_people_count[c]
                /\ frame_count'[c] = frame_count[c]
                /\ max_people_count'[c] = max_people_count[c]]_vars

\* The file worker w of camera c has read its whole file and stands at the
\* loop test
AtEof(c, w) ==
    /\ HasWorker(c, w)
    /\ workers[c][w].kind = "video_file"
    /\ workers[c][w].pc = "loop"
    /\ workers[c][w].pos = workers[c][w].len

\* ... and has left its loop there
EofEnded(c, w) ==
    /\ HasWorker(c, w)
    /\ workers[c][w].kind = "video_file"
    /\ workers[c][w].pc = "done"
    /\ workers[c][w].pos = workers[c][w].len

C20_FallenStaysFallen ==
    [][\A c \in Cameras : \A w \in 1..MaxStarts :
          (HasWorker(c, w) /\ workers[c][w].kind = "ip_camera") =>
             /\ \A i \in Persons :
                   workers[c][w].persons[i].fallen =>
                      /\ workers'[c][w].persons[i].fallen
                      /\ workers'[c][w].persons[i].x = workers[c][w].persons[i].x
                      /\ workers'[c][w].persons[i].y = workers[c][w].persons[i].y
             /\ (WritesStatus(c, w) /\ status[c].fall) => status'[c].fall]_vars

\* The first marker fell in the first frame, after its move, and lies where
\* it fell while the worker writes the status of its last frame
C20_Witness ==
    \E c \in Cameras :
        /\ HasWorker(c, 1)
        /\ workers[c][1].pos = MaxTicks
        /\ workers[c][1].pc = "write"
        /\ workers[c][1].fall
        /\ status[c].fall
        /\ workers[c][1].persons[1] =
              [x |-> 102, y |-> 201, dx |-> 0, dy |-> 0, fallen |-> TRUE]

====
